---- MODULE Spec2Model ----
(***************************************************************************)
(* persistproc: the process registry and supervisor.                       *)
(*                                                                         *)
(* The repository ships two ProcessManager classes.  serve.py and tools.py *)
(* construct persistproc.process_manager.ProcessManager (impl = "pm");     *)
(* server.py and the package __init__ construct                            *)
(* persistproc.core.ProcessManager (impl = "core").  A server runs one of  *)
(* them; Init chooses which, and every action is the translation of one    *)
(* lock-delimited step of one method of one of the two classes.            *)
(*                                                                         *)
(* A block guarded by `with self._lock` is one atomic step.  Code outside  *)
(* the lock (status reads, signal delivery, Popen.wait, Popen.poll) is a   *)
(* step of its own, so that the other threads interleave with it.          *)
(***************************************************************************)
EXTENDS Integers, Sequences, FiniteSets, TLC

\* ---------------------------------------------------------------- bounds
MaxProcs   == 2      \* children spawned in one run (Popen objects)
MaxPid     == 2      \* size of the OS pid space
MaxReqs    == 3      \* tool requests and signals served in one run
NumThreads == 2      \* concurrent request handlers

None == -1           \* Python None for exit_code / exit_time / proc / pid

Handles   == 1..MaxProcs
Pids      == 1..MaxPid
Threads   == 1..NumThreads
Main      == 0       \* the server's main thread
AllThreads == {Main} \cup Threads
Labels    == {"a", "b"}
ExitCodes == {0, 1}
Impls     == {"pm", "core"}

VARIABLES
    impl,        \* which ProcessManager class this server constructed;
                 \* "down" once the server process has ended, "hung"
                 \* once its main thread waits for a lock it holds
    children,    \* OS side of each Popen: pid, alive / zombie / reaped, code
    ent,         \* heap of _ProcEntry / ProcessInfo objects, one per Popen
    processes,   \* the registry dict: pid -> entry object (0: key absent)
    th,          \* main thread and request handlers: position and locals
    mon,         \* the monitor thread: position and locals
    reqs,        \* requests accepted and signals received so far
    clock,       \* source of _get_iso_ts() / get_iso_timestamp()
    logs,        \* one child's pipes, its pump threads and its log files
    reader,      \* one get_output / get_process_output call and its result
    client       \* the `run` tail client and the registry it talks to

\* The registry and its threads, and the three parts that have steps of
\* their own: log capture, log reading and the tail client.
server == <<impl, children, ent, processes, th, mon, reqs, clock>>
aux    == <<logs, reader, client>>
vars   == <<impl, children, ent, processes, th, mon, reqs, clock,
           logs, reader, client>>

\* ------------------------------------------------------------- data model

NoChild == [pid |-> None, os |-> "unborn", code |-> None]

NoEntry == [pid |-> None, label |-> "", status |-> "absent",
            start_time |-> None, exit_code |-> None, exit_time |-> None,
            proc |-> None]

_ProcEntry(p, l, h, ts) ==
    [pid |-> p, label |-> l, status |-> "running", start_time |-> ts,
     exit_code |-> None, exit_time |-> None, proc |-> h]

\* What a call hands back: a result dataclass or dict (tag "ok"), a result
\* carrying `error` (tag "error"), or an exception (tag "raise").
NoRes == [tag |-> "none", err |-> "", pid |-> None, exit_code |-> None,
          status |-> ""]
StartProcessResult(p)   == [NoRes EXCEPT !.tag = "ok", !.pid = p]
StopProcessResult(c)    == [NoRes EXCEPT !.tag = "ok", !.exit_code = c]
RestartProcessResult(p) == [NoRes EXCEPT !.tag = "ok", !.pid = p]
Error(msg) == [NoRes EXCEPT !.tag = "error", !.err = msg]
Raise(msg) == [NoRes EXCEPT !.tag = "raise", !.err = msg]
process_info_to_dict(e) ==
    [tag |-> "ok", err |-> "", pid |-> e.pid, exit_code |-> e.exit_code,
     status |-> e.status]

\* snap, run and size are the locals of the two shutdown loops: what is
\* still to be visited, which of the snapshot's entries were `running` when
\* it was taken, and the size the dict iterator saw when it was created.
Idle == [pc |-> "idle", op |-> "none", label |-> "", pid |-> None,
         force |-> FALSE, e |-> 0, h |-> 0, log |-> <<>>, res |-> NoRes,
         snap |-> {}, run |-> {}, size |-> 0]

\* ------------------------------------------------------------- OS helpers

InUse(h)    == children[h].os \in {"alive", "zombie"}
Holder(p)   == {h \in Handles : InUse(h) /\ children[h].pid = p}
FreePids    == {p \in Pids : Holder(p) = {}}
\* The label of a Start request: one some entry already carries, or a new
\* one ("a" stands for the first new label, "b" for a second one).
LabelUsed(l) == \E h \in Handles : ent[h].status # "absent" /\ ent[h].label = l
StartLabels  == {l \in Labels : l = "a" \/ LabelUsed("a")}

\* The pid a fork returns: a number no child has had yet (the lowest stands
\* for all of them), or a number whose earlier owner has been reaped.
Used(p)     == \E h \in Handles : children[h].pid = p
ForkPids    == {p \in FreePids : Used(p) \/ \A q \in FreePids : Used(q) \/ p <= q}
Unborn      == {h \in Handles : children[h].os = "unborn"}
NextHandle  == CHOOSE h \in Unborn : \A g \in Unborn : h <= g

\* Popen.poll(): reaps a zombie and returns its code; None while alive.
Polled(h)   == IF children[h].os = "alive" THEN None ELSE children[h].code
Reap(h)     == IF h # None /\ children[h].os = "zombie"
               THEN [children EXCEPT ![h].os = "reaped"]
               ELSE children

Running(p)  == processes[p] # 0 /\ ent[processes[p]].status = "running"

\* ------------------------------------------------------------ log files

MaxLines == 3        \* lines of a log file that is read back

\* The leading token of a log line: an ISO-8601 UTC stamp written by a pump,
\* or the bracketed stamp that opens a `[SYSTEM]` line.
Stamps      == {"00:00Z", "00:01Z", "00:02Z"}
SystemToken == "[00:01Z]"
Tokens      == Stamps \cup {SystemToken}
Streams     == {"stdout", "stderr", "combined"}

\* f.readlines(): the lines of a file, in file order.
Files ==
    UNION {{[i \in 1..n |-> [no |-> i, token |-> f[i]]] : f \in [1..n -> Tokens]}
           : n \in 0..MaxLines}

NoOutput == [tag |-> "none", err |-> "", output |-> <<>>]
ProcessOutputResult(lines) == [tag |-> "ok", err |-> "", output |-> lines]
OutputRaise(msg) == [tag |-> "raise", err |-> msg, output |-> <<>>]

\* No get_output call is in progress.
NoReader == [pid |-> None, known |-> FALSE, stream |-> "", lines |-> None,
             since_time |-> "", before_time |-> "", file |-> <<>>,
             server_log |-> <<>>, res |-> NoOutput]

MaxOut == 2          \* lines a child writes to its pipes

\* The two pipes of a child; each has a pump thread of its own.
Pipes == {"stdout", "stderr"}

\* A pump thread about to call src.readline().
NoPump == [pc |-> "readline", line |-> 0, ts |-> None]

\* No child is being captured.  `closer` is the thread that closes the
\* combined file; `registered`, `started` and `exited` are the steps of
\* core.py that write `[SYSTEM]` lines around the capture.
NoLogs == [child |-> "none", wrote |-> 0,
           pipe |-> [s \in Pipes |-> <<>>],
           pump |-> [s \in Pipes |-> NoPump],
           closer |-> "waiting",
           file |-> [f \in Streams |-> <<>>],
           registered |-> FALSE, started |-> FALSE, exited |-> FALSE]

\* A line of a log file: where it came from (a pipe, or the `started` /
\* `exited` event), the child's line number and the time stamp in front.
LogLine(src, n, ts) == [src |-> src, no |-> n, ts |-> ts]
MaxEntries == 3      \* entries in the registry the tail client talks to

\* What `run` is asked to run: the executable and its arguments.  An
\* argument may hold a blank.
CmdTokens   == {<<"c">>, <<"c", "x y">>}
CommandStrs == {"c", "c x y"}
Cwds        == {"/w", "/v"}
\* " ".join(cmd_tokens)
Join(tokens) == IF tokens = <<"c">> THEN "c" ELSE "c x y"
\* shlex.split(command)
shlex_split(command) ==
    IF command = "c" THEN <<"c">> ELSE <<"c", "x", "y">>

\* No `run` client has been started.  `procs` is the server's registry in
\* dict order, `calls` the tools the client has called since its last
\* `list`, `existing` the pid _find_running_process_dict returned (0: None),
\* `sigints` the SIGINTs the client has received, `stop_pid` the pid it asked
\* the server to stop on its way out (0: none), `polls` the status polls of
\* its wait for that stop, `other` the pid that another client's `restart`
\* has stopped and not yet started again (0: none).
NoClient == [pc |-> "none", cmd_tokens |-> <<>>, cwd |-> "", fresh |-> FALSE,
             label |-> "", procs |-> <<>>, existing |-> 0, pid |-> 0,
             calls |-> <<>>, on_exit |-> "", sigints |-> 0, stop_pid |-> 0,
             polls |-> 0, other |-> 0]

\* A server that has just been constructed: an empty registry, idle threads.
InitRegistry ==
    /\ impl \in Impls
    /\ children = [h \in Handles |-> NoChild]
    /\ ent = [h \in Handles |-> NoEntry]
    /\ processes = [p \in Pids |-> 0]
    /\ th = [t \in AllThreads |-> Idle]
    /\ mon = [pc |-> "tick", snap |-> {}, e |-> 0, code |-> None]
    /\ reqs = 0

InitServer == InitRegistry /\ clock = 0

Init ==
    /\ InitServer
    /\ logs = NoLogs
    /\ reader = NoReader
    /\ client = NoClient

\* ------------------------------------------------- shared step fragments

\* A request is served by the lowest-numbered free handler (the handlers are
\* interchangeable workers of the transport).
Accept(t) ==
    /\ t \in Threads
    /\ th[t].pc = "idle" /\ reqs < MaxReqs
    /\ \A u \in Threads : u < t => th[u].pc # "idle"

Set(t, rec) == th' = [th EXCEPT ![t] = rec]
Goto(t, rec, pc) == Set(t, [rec EXCEPT !.pc = pc])
\* A finished handler keeps what the caller sees of the call: the request
\* (op, pid, force), the signals it sent and the waits it made, in order,
\* and the result.
Return(t, rec, res) ==
    Set(t, [Idle EXCEPT !.op = rec.op, !.pid = rec.pid, !.force = rec.force,
                        !.log = rec.log, !.res = res])

\* os.killpg(os.getpgid(pid), sig): the signal reaches whichever process
\* holds the pid number now; ProcessLookupError (to = 0) when none does.
Target(p) == IF Holder(p) = {} THEN 0 ELSE CHOOSE h \in Holder(p) : TRUE
_send_signal(rec, sig) ==
    [rec EXCEPT !.log = Append(@, [ev |-> sig, to |-> Target(rec.pid),
                                   ok |-> Target(rec.pid) # 0])]

\* _wait_for_exit(proc, timeout): True at once for proc None or a child that
\* has ended (the wait reaps it); False when the timeout expires on a live one.
_wait_for_exit(rec, exited) ==
    [rec EXCEPT !.log = Append(@, [ev |-> "wait", to |-> 0, ok |-> exited])]
CanExit(h)    == IF h = None THEN TRUE ELSE children[h].os # "alive"
CanTimeout(h) == IF h = None THEN FALSE ELSE children[h].os = "alive"

\* =====================================================================
\* persistproc/process_manager.py
\* =====================================================================

\* restart() without `if stop_res.error is not None: return ...`.
FinishStop_drops_error(t, rec, res) ==
    IF rec.op = "restart"
    THEN Goto(t, rec, "start_check")
    ELSE IF rec.op = "kill"
         THEN Goto(t, rec, "kill_loop")
         ELSE Return(t, rec, res)

\* The nested stop() has returned: restart(), lines 538-541, forwards an
\* error; kill_persistproc(), lines 664-670, goes on with its loop.
FinishStop(t, rec, res) ==
    IF rec.op = "restart"
    THEN IF res.tag = "error"
         THEN Return(t, rec, Error(res.err))
         ELSE Goto(t, rec, "start_check")
    ELSE IF rec.op = "kill"
         THEN Goto(t, rec, "kill_loop")
         ELSE Return(t, rec, res)

\* restart(), lines 548-559: the nested start() has returned or raised.
FinishStart(t, rec, res) ==
    IF rec.op = "restart" /\ res.tag # "raise"
    THEN Return(t, rec, RestartProcessResult(res.pid))
    ELSE Return(t, rec, res)

\* start() without the loop that raises on a running entry with the label.
StartCheck_without_duplicate_check(t, rec) ==
    Goto(t, rec, "start_spawn")

\* start(), lines 210-225: label, duplicate check under the lock.
StartCheck(t, rec) ==
    IF \E p \in Pids : Running(p) /\ ent[processes[p]].label = rec.label
    THEN FinishStart(t, rec, Raise("already running"))
    ELSE Goto(t, rec, "start_spawn")

start(t) ==
    /\ impl = "pm" /\ Accept(t)
    /\ \E l \in StartLabels :
         StartCheck(t, [Idle EXCEPT !.op = "start", !.label = l])
    /\ reqs' = reqs + 1
    /\ UNCHANGED <<aux, impl, children, ent, processes, mon, clock>>

restart_start(t) ==
    /\ impl = "pm" /\ th[t].pc = "start_check"
    /\ StartCheck(t, th[t])
    /\ UNCHANGED <<aux, impl, children, ent, processes, mon, reqs, clock>>

\* start(), lines 227-273: working-directory check, Popen, entry object.
start_spawn(t) ==
    /\ impl = "pm" /\ th[t].pc = "start_spawn"
    /\ \/ /\ FinishStart(t, th[t], Error("Command not found"))
          /\ UNCHANGED <<children, ent, clock>>
       \/ /\ Unborn # {}
          /\ \E p \in ForkPids :
               LET h == NextHandle IN
               /\ children' = [children EXCEPT
                     ![h] = [pid |-> p, os |-> "alive", code |-> None]]
               /\ ent' = [ent EXCEPT
                     ![h] = _ProcEntry(p, th[t].label, h, clock)]
               /\ Set(t, [th[t] EXCEPT !.pc = "start_insert", !.h = h])
          /\ clock' = clock + 1
    /\ UNCHANGED <<aux, impl, processes, mon, reqs>>

\* start(), lines 236-261: Popen has succeeded and start_pumps() raises
\* OSError on opening a log file (lines 121-124); the exception leaves
\* start() with the child spawned and no entry made.
start_pumps_fails(t) ==
    /\ impl = "pm" /\ th[t].pc = "start_spawn"
    /\ Unborn # {}
    /\ \E p \in ForkPids :
         children' = [children EXCEPT
             ![NextHandle] = [pid |-> p, os |-> "alive", code |-> None]]
    /\ FinishStart(t, th[t], Raise("OSError"))
    /\ UNCHANGED <<aux, impl, ent, processes, mon, reqs, clock>>

\* start(), lines 275-295: self._processes[proc.pid] = ent under the lock.
start_insert(t) ==
    /\ impl = "pm" /\ th[t].pc = "start_insert"
    /\ LET h == th[t].h IN
       /\ processes' = [processes EXCEPT ![ent[h].pid] = h]
       /\ FinishStart(t, th[t], StartProcessResult(ent[h].pid))
    /\ UNCHANGED <<aux, impl, children, ent, mon, reqs, clock>>

\* stop(), lines 394-402: ent = self._require_unlocked(pid) under the lock.
StopLookup(t, rec) ==
    IF processes[rec.pid] = 0
    THEN FinishStop(t, rec, Error("not found"))
    ELSE Set(t, [rec EXCEPT !.pc = "stop_check", !.e = processes[rec.pid]])

stop(t) ==
    /\ impl = "pm" /\ Accept(t)
    /\ \E p \in Pids, f \in BOOLEAN :
         StopLookup(t, [Idle EXCEPT !.op = "stop", !.pid = p, !.force = f])
    /\ reqs' = reqs + 1
    /\ UNCHANGED <<aux, impl, children, ent, processes, mon, clock>>

restart_stop(t) ==
    /\ impl = "pm" /\ th[t].pc = "stop_lookup"
    /\ StopLookup(t, th[t])
    /\ UNCHANGED <<aux, impl, children, ent, processes, mon, reqs, clock>>

\* stop(), lines 404-405: the status is read after the lock is released.
stop_check(t) ==
    /\ impl = "pm" /\ th[t].pc = "stop_check"
    /\ IF ent[th[t].e].status # "running"
       THEN FinishStop(t, th[t], Error("not running"))
       ELSE Goto(t, th[t], "stop_sigterm")
    /\ UNCHANGED <<aux, impl, children, ent, processes, mon, reqs, clock>>

\* stop(), lines 407-413: SIGTERM whatever `force` says.
stop_sigterm(t) ==
    /\ impl = "pm" /\ th[t].pc = "stop_sigterm"
    /\ Goto(t, _send_signal(th[t], "SIGTERM"), "stop_wait")
    /\ UNCHANGED <<aux, impl, children, ent, processes, mon, reqs, clock>>

\* The escalation guard written `if not force:` instead of
\* `if not exited and not force:`.
stop_wait_escalates_anyway(t) ==
    /\ impl = "pm" /\ th[t].pc = "stop_wait"
    /\ LET proc == ent[th[t].e].proc IN
       \/ /\ CanExit(proc)
          /\ children' = Reap(proc)
          /\ IF th[t].force
             THEN Goto(t, _wait_for_exit(th[t], TRUE), "stop_record")
             ELSE Goto(t, _wait_for_exit(th[t], TRUE), "stop_sigkill")
       \/ /\ CanTimeout(proc)
          /\ UNCHANGED children
          /\ IF th[t].force
             THEN FinishStop(t, _wait_for_exit(th[t], FALSE), Error("timeout"))
             ELSE Goto(t, _wait_for_exit(th[t], FALSE), "stop_sigkill")
    /\ UNCHANGED <<aux, impl, ent, processes, mon, reqs, clock>>

\* stop(), lines 415-417 and 427-429: the graceful wait.
stop_wait(t) ==
    /\ impl = "pm" /\ th[t].pc = "stop_wait"
    /\ LET proc == ent[th[t].e].proc IN
       \/ /\ CanExit(proc)
          /\ children' = Reap(proc)
          /\ Goto(t, _wait_for_exit(th[t], TRUE), "stop_record")
       \/ /\ CanTimeout(proc)
          /\ UNCHANGED children
          /\ IF th[t].force
             THEN FinishStop(t, _wait_for_exit(th[t], FALSE), Error("timeout"))
             ELSE Goto(t, _wait_for_exit(th[t], FALSE), "stop_sigkill")
    /\ UNCHANGED <<aux, impl, ent, processes, mon, reqs, clock>>

\* stop(), lines 418-423: escalation.
stop_sigkill(t) ==
    /\ impl = "pm" /\ th[t].pc = "stop_sigkill"
    /\ Goto(t, _send_signal(th[t], "SIGKILL"), "stop_wait_kill")
    /\ UNCHANGED <<aux, impl, children, ent, processes, mon, reqs, clock>>

\* The short wait after SIGKILL repeated for as long as the child lives.
stop_wait_kill_waits_again(t) ==
    /\ impl = "pm" /\ th[t].pc = "stop_wait_kill"
    /\ LET proc == ent[th[t].e].proc IN
       \/ /\ CanExit(proc)
          /\ children' = Reap(proc)
          /\ Goto(t, _wait_for_exit(th[t], TRUE), "stop_record")
       \/ /\ CanTimeout(proc)
          /\ UNCHANGED children
          /\ Goto(t, _wait_for_exit(th[t], FALSE), "stop_wait_kill")
    /\ UNCHANGED <<aux, impl, ent, processes, mon, reqs, clock>>

\* stop(), lines 425-429: the short wait after SIGKILL.
stop_wait_kill(t) ==
    /\ impl = "pm" /\ th[t].pc = "stop_wait_kill"
    /\ LET proc == ent[th[t].e].proc IN
       \/ /\ CanExit(proc)
          /\ children' = Reap(proc)
          /\ Goto(t, _wait_for_exit(th[t], TRUE), "stop_record")
       \/ /\ CanTimeout(proc)
          /\ UNCHANGED children
          /\ FinishStop(t, _wait_for_exit(th[t], FALSE), Error("timeout"))
    /\ UNCHANGED <<aux, impl, ent, processes, mon, reqs, clock>>

\* stop(), lines 431-440: record metadata under the lock.
stop_record(t) ==
    /\ impl = "pm" /\ th[t].pc = "stop_record"
    /\ LET e    == th[t].e
           code == IF ent[e].exit_code = None THEN 0 ELSE ent[e].exit_code
       IN /\ ent' = [ent EXCEPT ![e].status = "terminated",
                                ![e].proc = None,
                                ![e].exit_code = code,
                                ![e].exit_time = clock]
          /\ FinishStop(t, th[t], StopProcessResult(code))
    /\ clock' = clock + 1
    /\ UNCHANGED <<aux, impl, children, processes, mon, reqs>>

\* restart(), lines 463-536: resolve the pid, keep the original parameters.
restart(t) ==
    /\ impl = "pm" /\ Accept(t)
    /\ \E p \in Pids :
         LET rec == [Idle EXCEPT !.op = "restart", !.pid = p] IN
         IF processes[p] = 0
         THEN Return(t, rec, Error("not found"))
         ELSE Set(t, [rec EXCEPT !.pc = "stop_lookup",
                                 !.label = ent[processes[p]].label])
    /\ reqs' = reqs + 1
    /\ UNCHANGED <<aux, impl, children, ent, processes, mon, clock>>

\* kill_persistproc(), lines 641-646: os.getpid() and, under the lock, the
\* snapshot list(self._processes.values()).
ServerPid == 0
Snapshot == {processes[p] : p \in {q \in Pids : processes[q] # 0}}
First(S) == CHOOSE x \in S : \A y \in S : x <= y

kill_persistproc(t) ==
    /\ impl = "pm" /\ Accept(t)
    /\ Set(t, [Idle EXCEPT
                 !.op = "kill", !.pc = "kill_loop", !.snap = Snapshot,
                 !.run = {e \in Snapshot : ent[e].status = "running"}])
    /\ reqs' = reqs + 1
    /\ UNCHANGED <<aux, impl, children, ent, processes, mon, clock>>

\* The loop of kill_persistproc() ending one entry early.
kill_persistproc_loop_leaves_last(t) ==
    /\ impl = "pm" /\ th[t].pc = "kill_loop"
    /\ IF Cardinality(th[t].snap) <= 1
       THEN th' = [th EXCEPT
                     ![t] = [Idle EXCEPT !.op = "kill", !.log = th[t].log,
                                         !.snap = th[t].snap,
                                         !.res = StartProcessResult(ServerPid)],
                     ![Main].pc = "kill_server"]
       ELSE LET e   == First(th[t].snap)
                rec == [th[t] EXCEPT !.snap = @ \ {e}]
            IN IF ent[e].status = "running"
               THEN Set(t, [rec EXCEPT !.pc = "stop_lookup", !.e = 0,
                                       !.pid = ent[e].pid, !.force = TRUE])
               ELSE Set(t, rec)
    /\ UNCHANGED <<aux, impl, children, ent, processes, mon, reqs, clock>>

\* kill_persistproc(), lines 656-686: the entries of the snapshot in the
\* order of the list (the order in which their children were forked); the
\* status is read when the entry's turn comes; after the last one the
\* _kill_server thread is started and {"pid": server_pid} returned.
kill_persistproc_loop(t) ==
    /\ impl = "pm" /\ th[t].pc = "kill_loop"
    /\ IF th[t].snap = {}
       THEN th' = [th EXCEPT
                     ![t] = [Idle EXCEPT !.op = "kill", !.log = th[t].log,
                                         !.res = StartProcessResult(ServerPid)],
                     ![Main].pc = "kill_server"]
       ELSE LET e   == First(th[t].snap)
                rec == [th[t] EXCEPT !.snap = @ \ {e}]
            IN IF ent[e].status = "running"
               THEN Set(t, [rec EXCEPT !.pc = "stop_lookup", !.e = 0,
                                       !.pid = ent[e].pid, !.force = TRUE])
               ELSE Set(t, rec)
    /\ UNCHANGED <<aux, impl, children, ent, processes, mon, reqs, clock>>

\* _kill_server(), lines 679-682: after the delay the server process sends
\* itself SIGTERM, which serve.py leaves to end the process.
_kill_server ==
    /\ impl = "pm" /\ th[Main].pc = "kill_server"
    /\ Set(Main, [th[Main] EXCEPT !.pc = "exited"])
    /\ impl' = "down"
    /\ UNCHANGED <<aux, children, ent, processes, mon, reqs, clock>>

\* The tick reading proc.returncode where the code calls proc.poll().
Ended_reads_returncode ==
    {h \in Handles :
        /\ \E p \in Pids : processes[p] = h
        /\ ent[h].status = "running" /\ ent[h].proc # None
        /\ children[ent[h].proc].os = "reaped"}

\* _monitor_loop(), lines 715-741: one tick, entirely under the lock.
Ended == {h \in Handles :
            /\ \E p \in Pids : processes[p] = h
            /\ ent[h].status = "running" /\ ent[h].proc # None
            /\ Polled(ent[h].proc) # None}

MonitorStatus(code) == "exited"

_monitor_loop ==
    /\ impl = "pm" /\ mon.pc = "tick"
    /\ ent' = [h \in Handles |->
                 IF h \in Ended
                 THEN [ent[h] EXCEPT
                         !.status = MonitorStatus(Polled(ent[h].proc)),
                         !.exit_code = Polled(ent[h].proc),
                         !.exit_time =
                             clock + Cardinality({g \in Ended : g < h})]
                 ELSE ent[h]]
    /\ children' = [h \in Handles |->
                      IF \E g \in Ended : ent[g].proc = h
                      THEN [children[h] EXCEPT !.os = "reaped"]
                      ELSE children[h]]
    /\ clock' = clock + Cardinality(Ended)
    /\ UNCHANGED <<aux, impl, processes, th, mon, reqs>>


\* =====================================================================
\* persistproc/core.py
\* =====================================================================

ProcessInfo(p, cmd, h, ts) ==
    [pid |-> p, label |-> cmd, status |-> "running", start_time |-> ts,
     exit_code |-> None, exit_time |-> None, proc |-> h]

\* stop_process() has returned or raised.  restart_process(), lines
\* 287-294, drops the result; signal_handler() of server.py, lines 62-66,
\* logs the result or the exception and goes on with its loop.
FinishStopProcess(t, rec, res) ==
    IF rec.op = "signal"
    THEN Goto(t, rec, "handler_loop")
    ELSE IF rec.op = "restart" /\ res.tag # "raise"
         THEN Goto(t, rec, "start_process_check")
         ELSE Return(t, rec, res)

\* start_process(), lines 173-178: duplicate check on the command string
\* (the entry's identity in this class) under the lock.
StartProcessCheck(t, rec) ==
    IF \E p \in Pids : Running(p) /\ ent[processes[p]].label = rec.label
    THEN Return(t, rec, Raise("already running"))
    ELSE Goto(t, rec, "start_process_spawn")

start_process(t) ==
    /\ impl = "core" /\ Accept(t)
    /\ \E l \in StartLabels :
         StartProcessCheck(t, [Idle EXCEPT !.op = "start", !.label = l])
    /\ reqs' = reqs + 1
    /\ UNCHANGED <<aux, impl, children, ent, processes, mon, clock>>

restart_process_start(t) ==
    /\ impl = "core" /\ th[t].pc = "start_process_check"
    /\ StartProcessCheck(t, th[t])
    /\ UNCHANGED <<aux, impl, children, ent, processes, mon, reqs, clock>>

\* start_process(), lines 180-204 with _create_subprocess(), lines 145-165.
start_process_spawn(t) ==
    /\ impl = "core" /\ th[t].pc = "start_process_spawn"
    /\ \/ /\ Return(t, th[t], Raise("Command not found"))
          /\ UNCHANGED <<children, ent, clock>>
       \/ /\ Unborn # {}
          /\ \E p \in ForkPids :
               LET h == NextHandle IN
               /\ children' = [children EXCEPT
                     ![h] = [pid |-> p, os |-> "alive", code |-> None]]
               /\ ent' = [ent EXCEPT
                     ![h] = ProcessInfo(p, th[t].label, h, clock)]
               /\ Set(t, [th[t] EXCEPT !.pc = "start_process_insert",
                                       !.h = h])
          /\ clock' = clock + 1
    /\ UNCHANGED <<aux, impl, processes, mon, reqs>>

\* start_process(), lines 183-188: _create_subprocess() has succeeded and
\* start_logging() raises OSError on opening a log file (lines 61-63).
start_logging_fails(t) ==
    /\ impl = "core" /\ th[t].pc = "start_process_spawn"
    /\ Unborn # {}
    /\ \E p \in ForkPids :
         children' = [children EXCEPT
             ![NextHandle] = [pid |-> p, os |-> "alive", code |-> None]]
    /\ Return(t, th[t], Raise("OSError"))
    /\ UNCHANGED <<aux, impl, ent, processes, mon, reqs, clock>>

\* start_process(), lines 206-209: the entry is inserted and then
\* _log_event() (lines 117-122) raises OSError on opening or writing the
\* combined log file.
_log_event_fails(t) ==
    /\ impl = "core" /\ th[t].pc = "start_process_insert"
    /\ processes' = [processes EXCEPT ![ent[th[t].h].pid] = th[t].h]
    /\ Return(t, th[t], Raise("OSError"))
    /\ UNCHANGED <<aux, impl, children, ent, mon, reqs, clock>>

\* start_process(), lines 206-210: self.processes[proc.pid] = p_info.
start_process_insert(t) ==
    /\ impl = "core" /\ th[t].pc = "start_process_insert"
    /\ LET h == th[t].h IN
       /\ processes' = [processes EXCEPT ![ent[h].pid] = h]
       /\ Return(t, th[t], process_info_to_dict(ent[h]))
    /\ UNCHANGED <<aux, impl, children, ent, mon, reqs, clock>>

\* stop_process(), lines 255-259: p_info = self.processes.get(pid).
StopProcessLookup(t, rec) ==
    IF processes[rec.pid] = 0
    THEN FinishStopProcess(t, rec, Raise("not found"))
    ELSE Set(t, [rec EXCEPT !.pc = "stop_process_check",
                            !.e = processes[rec.pid]])

stop_process(t) ==
    /\ impl = "core" /\ Accept(t)
    /\ \E p \in Pids, f \in BOOLEAN :
         StopProcessLookup(t,
             [Idle EXCEPT !.op = "stop", !.pid = p, !.force = f])
    /\ reqs' = reqs + 1
    /\ UNCHANGED <<aux, impl, children, ent, processes, mon, clock>>

restart_process_stop(t) ==
    /\ impl = "core" /\ th[t].pc = "stop_process_lookup"
    /\ StopProcessLookup(t, th[t])
    /\ UNCHANGED <<aux, impl, children, ent, processes, mon, reqs, clock>>

\* stop_process(), lines 261-267: a non-running entry is returned as it is.
stop_process_check(t) ==
    /\ impl = "core" /\ th[t].pc = "stop_process_check"
    /\ IF ent[th[t].e].status # "running"
       THEN FinishStopProcess(t, th[t], process_info_to_dict(ent[th[t].e]))
       ELSE Goto(t, th[t], "shutdown_signal")
    /\ UNCHANGED <<aux, impl, children, ent, processes, mon, reqs, clock>>

\* _perform_graceful_shutdown(), lines 216-224: SIGKILL if force else SIGTERM.
_perform_graceful_shutdown(t) ==
    /\ impl = "core" /\ th[t].pc = "shutdown_signal"
    /\ LET rec == _send_signal(th[t], IF th[t].force THEN "SIGKILL"
                                                    ELSE "SIGTERM")
       IN IF Target(th[t].pid) = 0
          THEN Goto(t, rec, "shutdown_gone")
          ELSE Goto(t, rec, "shutdown_wait")
    /\ UNCHANGED <<aux, impl, children, ent, processes, mon, reqs, clock>>

\* _perform_graceful_shutdown(), lines 223-227: ProcessLookupError.
_perform_graceful_shutdown_gone(t) ==
    /\ impl = "core" /\ th[t].pc = "shutdown_gone"
    /\ ent' = [ent EXCEPT ![th[t].e].status = "terminated"]
    /\ Goto(t, th[t], "stop_process_cleanup")
    /\ UNCHANGED <<aux, impl, children, processes, mon, reqs, clock>>

\* _perform_graceful_shutdown(), lines 231-241: the graceful wait.
_perform_graceful_shutdown_wait(t) ==
    /\ impl = "core" /\ th[t].pc = "shutdown_wait"
    /\ LET proc == ent[th[t].e].proc IN
       \/ /\ CanExit(proc)
          /\ children' = Reap(proc)
          /\ Goto(t, _wait_for_exit(th[t], TRUE), "stop_process_cleanup")
       \/ /\ CanTimeout(proc)
          /\ UNCHANGED children
          /\ IF th[t].force
             THEN Goto(t, _wait_for_exit(th[t], FALSE), "stop_process_cleanup")
             ELSE Goto(t, _wait_for_exit(th[t], FALSE), "shutdown_escalate")
    /\ UNCHANGED <<aux, impl, ent, processes, mon, reqs, clock>>

\* _perform_graceful_shutdown(), lines 242-250: escalate to SIGKILL.
_perform_graceful_shutdown_escalate(t) ==
    /\ impl = "core" /\ th[t].pc = "shutdown_escalate"
    /\ LET rec == _send_signal(th[t], "SIGKILL")
       IN IF Target(th[t].pid) = 0
          THEN Goto(t, rec, "stop_process_cleanup")
          ELSE Goto(t, rec, "shutdown_wait_kill")
    /\ UNCHANGED <<aux, impl, children, ent, processes, mon, reqs, clock>>

\* _perform_graceful_shutdown(), lines 244-248: the wait after SIGKILL; its
\* outcome is only logged.
_perform_graceful_shutdown_wait_kill(t) ==
    /\ impl = "core" /\ th[t].pc = "shutdown_wait_kill"
    /\ LET proc == ent[th[t].e].proc IN
       \/ /\ CanExit(proc)
          /\ children' = Reap(proc)
          /\ Goto(t, _wait_for_exit(th[t], TRUE), "stop_process_cleanup")
       \/ /\ CanTimeout(proc)
          /\ UNCHANGED children
          /\ Goto(t, _wait_for_exit(th[t], FALSE), "stop_process_cleanup")
    /\ UNCHANGED <<aux, impl, ent, processes, mon, reqs, clock>>

\* stop_process(), lines 271-278: clear proc, set the status, build the dict.
stop_process_cleanup(t) ==
    /\ impl = "core" /\ th[t].pc = "stop_process_cleanup"
    /\ LET e   == th[t].e
           new == [ent[e] EXCEPT
                     !.proc = None,
                     !.status = IF @ = "running" THEN "terminated" ELSE @]
       IN /\ ent' = [ent EXCEPT ![e] = new]
          /\ FinishStopProcess(t, th[t], process_info_to_dict(new))
    /\ UNCHANGED <<aux, impl, children, processes, mon, reqs, clock>>

\* restart_process(), lines 282-285: get_process_status() validates the pid.
restart_process(t) ==
    /\ impl = "core" /\ Accept(t)
    /\ \E p \in Pids :
         LET rec == [Idle EXCEPT !.op = "restart", !.pid = p] IN
         IF processes[p] = 0
         THEN Return(t, rec, Raise("not found"))
         ELSE Set(t, [rec EXCEPT !.pc = "stop_process_lookup",
                                 !.label = ent[processes[p]].label])
    /\ reqs' = reqs + 1
    /\ UNCHANGED <<aux, impl, children, ent, processes, mon, clock>>

\* =====================================================================
\* The registry lock: which steps run inside `with self._lock` /
\* `with self.lock`, and which steps read or write the registry dict or
\* an entry's status, exit_code, exit_time or proc.
\* =====================================================================

\* Positions of a handler thread whose next step is inside the lock:
\* process_manager.py 216-224, 275-278, 394-402, 431-437 and core.py
\* 173-178, 206-207, 255-256, 226-227, 271-276.
LockedPcs ==
    {"start_check", "start_insert", "stop_lookup", "stop_record",
     "start_process_check", "start_process_insert", "stop_process_lookup",
     "shutdown_gone", "stop_process_cleanup"}

\* Positions of a handler thread whose next step reads or writes the
\* registry or a mutable field of an entry: those of LockedPcs, and
\* process_manager.py 404 (ent.status), 416 and 425 (ent.proc), 658
\* (ent.status in kill_persistproc), core.py 261 (p_info.status), 234 and
\* 245 (p_info.proc).
AccessPcs ==
    LockedPcs \cup
    {"stop_check", "stop_wait", "stop_wait_kill", "kill_loop",
     "stop_process_check", "shutdown_wait", "shutdown_wait_kill"}

\* The monitor: its tick holds the lock in both classes (process_manager.py
\* 719-737, core.py 126-129), core.py polls p_info.proc outside it (131-134)
\* and records under it (135-142).
MonitorLockedPcs == {"tick", "update"}
MonitorAccessPcs == {"tick", "poll", "update"}

\* server.py, signal_handler(), lines 57-60: SIGINT or SIGTERM reaches the
\* main thread, which starts to iterate process_manager.processes.items(),
\* the dict itself, without the lock.
Keys == {p \in Pids : processes[p] # 0}

signal_handler ==
    /\ impl = "core" /\ th[Main].pc = "idle" /\ th[Main].op = "none"
    /\ reqs < MaxReqs
    /\ Set(Main, [Idle EXCEPT !.op = "signal", !.pc = "handler_loop",
                              !.size = None])
    /\ reqs' = reqs + 1
    /\ UNCHANGED <<aux, impl, children, ent, processes, mon, clock>>

\* What the handler's iterator has still to yield, and the dict size it
\* expects: taken from the dict when the `for` statement creates the
\* iterator, which is when it asks for the first item.
HandlerTodo(rec) == IF rec.size = None THEN Keys ELSE rec.snap
HandlerSize(rec) == IF rec.size = None THEN Cardinality(Keys) ELSE rec.size

\* signal_handler(), lines 60-67: the iterator's next item.  It raises
\* RuntimeError when the dict has changed size since the loop began (the
\* exception leaves the handler); otherwise it yields the next key in
\* insertion order, and stop_process(pid) is called if that entry's status is
\* 'running'; after the last key, sys.exit(0) ends the server.
signal_handler_loop ==
    /\ impl = "core" /\ th[Main].pc = "handler_loop"
    /\ LET rec  == th[Main]
           todo == HandlerTodo(rec)
       IN IF Cardinality(Keys) # HandlerSize(rec)
          THEN /\ Return(Main, rec,
                         Raise("dictionary changed size during iteration"))
               /\ UNCHANGED impl
          ELSE IF todo = {}
               THEN /\ Set(Main, [rec EXCEPT !.pc = "exited", !.snap = {},
                                             !.res = StopProcessResult(0)])
                    /\ impl' = "down"
               ELSE LET p  == First(todo)
                        r2 == [rec EXCEPT !.snap = todo \ {p},
                                          !.size = HandlerSize(rec)]
                    IN /\ IF ent[processes[p]].status = "running"
                          THEN Set(Main, [r2 EXCEPT
                                            !.pc = "stop_process_lookup",
                                            !.e = 0, !.pid = p,
                                            !.force = FALSE])
                          ELSE Set(Main, r2)
                       /\ UNCHANGED impl
    /\ UNCHANGED <<aux, children, ent, processes, mon, reqs, clock>>

\* _monitor_processes(), lines 126-129: snapshot of the running entries.
_monitor_processes ==
    /\ impl = "core" /\ mon.pc = "tick"
    /\ LET snap == {h \in Handles :
                      /\ \E p \in Pids : processes[p] = h
                      /\ ent[h].status = "running"}
       IN mon' = [mon EXCEPT !.snap = snap,
                             !.pc = IF snap = {} THEN "tick" ELSE "poll"]
    /\ UNCHANGED <<aux, impl, children, ent, processes, th, reqs, clock>>

MonNext(m) ==
    LET rest == m.snap \ {m.e} IN
    [m EXCEPT !.snap = rest, !.e = 0, !.code = None,
              !.pc = IF rest = {} THEN "tick" ELSE "poll"]

\* _monitor_processes(), lines 131-134: `if p_info.proc:` and proc.poll(),
\* outside the lock, for the next entry of the snapshot.
_monitor_processes_poll ==
    /\ impl = "core" /\ mon.pc = "poll"
    /\ LET e    == CHOOSE h \in mon.snap : \A g \in mon.snap : h <= g
           proc == ent[e].proc
           m    == [mon EXCEPT !.e = e]
       IN IF proc = None
          THEN /\ mon' = MonNext(m)
               /\ UNCHANGED children
          ELSE /\ children' = Reap(proc)
               /\ mon' = IF Polled(proc) = None
                         THEN MonNext(m)
                         ELSE [m EXCEPT !.pc = "update", !.code = Polled(proc)]
    /\ UNCHANGED <<aux, impl, ent, processes, th, reqs, clock>>

\* _monitor_processes(), lines 135-142: record the exit under the lock.
_monitor_processes_update ==
    /\ impl = "core" /\ mon.pc = "update"
    /\ ent' = [ent EXCEPT
                 ![mon.e].exit_code = mon.code,
                 ![mon.e].exit_time = clock,
                 ![mon.e].status = IF mon.code = 0 THEN "exited" ELSE "failed",
                 ![mon.e].proc = None]
    /\ mon' = MonNext(mon)
    /\ clock' = clock + 1
    /\ UNCHANGED <<aux, impl, children, processes, th, reqs>>

\* =====================================================================
\* The operating system
\* =====================================================================

\* A live child ends, on its own or from a signal, with some exit code.
ChildExit(h) ==
    /\ children[h].os = "alive"
    /\ \E c \in ExitCodes :
         children' = [children EXCEPT ![h].os = "zombie", ![h].code = c]
    /\ UNCHANGED <<aux, impl, ent, processes, th, mon, reqs, clock>>

Next ==
    \/ \E t \in Threads :
         \/ start(t) \/ restart_start(t) \/ start_spawn(t) \/ start_insert(t)
         \/ stop(t) \/ restart_stop(t) \/ stop_check(t) \/ stop_sigterm(t)
         \/ stop_wait(t) \/ stop_sigkill(t) \/ stop_wait_kill(t)
         \/ stop_record(t) \/ restart(t)
         \/ start_process(t) \/ restart_process_start(t)
         \/ start_process_spawn(t) \/ start_process_insert(t)
         \/ stop_process(t) \/ restart_process_stop(t)
         \/ stop_process_check(t)
         \/ _perform_graceful_shutdown(t)
         \/ _perform_graceful_shutdown_gone(t)
         \/ _perform_graceful_shutdown_wait(t)
         \/ _perform_graceful_shutdown_escalate(t)
         \/ _perform_graceful_shutdown_wait_kill(t)
         \/ stop_process_cleanup(t) \/ restart_process(t)
    \/ _monitor_loop
    \/ _monitor_processes \/ _monitor_processes_poll \/ _monitor_processes_update
    \/ \E h \in Handles : ChildExit(h)

Spec == Init /\ [][Next]_vars

\* The server on a file system where opening or writing a log file can fail.
NextDisk ==
    \/ Next
    \/ \E t \in Threads :
         \/ start_pumps_fails(t)
         \/ start_logging_fails(t) \/ _log_event_fails(t)

SpecDisk == Init /\ [][NextDisk]_vars

\* The monitor thread is a daemon thread that loops for as long as the
\* server runs: each of its steps is taken eventually once it can be taken.
\* The steps of a server that serves Start and Stop requests while its
\* monitor thread runs.
NextMonitor ==
    \/ \E t \in Threads :
         \/ start(t) \/ start_spawn(t) \/ start_insert(t)
         \/ stop(t) \/ stop_check(t) \/ stop_sigterm(t)
         \/ stop_wait(t) \/ stop_sigkill(t) \/ stop_wait_kill(t)
         \/ stop_record(t)
         \/ start_process(t)
         \/ start_process_spawn(t) \/ start_process_insert(t)
         \/ stop_process(t)
         \/ stop_process_check(t)
         \/ _perform_graceful_shutdown(t)
         \/ _perform_graceful_shutdown_gone(t)
         \/ _perform_graceful_shutdown_wait(t)
         \/ _perform_graceful_shutdown_escalate(t)
         \/ _perform_graceful_shutdown_wait_kill(t)
         \/ stop_process_cleanup(t)
    \/ _monitor_loop
    \/ _monitor_processes \/ _monitor_processes_poll \/ _monitor_processes_update
    \/ \E h \in Handles : ChildExit(h)

SpecMonitor ==
    /\ Init /\ [][NextMonitor]_vars
    /\ WF_vars(_monitor_loop)
    /\ WF_vars(_monitor_processes)
    /\ WF_vars(_monitor_processes_poll)
    /\ WF_vars(_monitor_processes_update)

\* =====================================================================
\* The server with its two ways of shutting down: the kill_persistproc
\* tool (process_manager.py) and the SIGINT / SIGTERM handler (server.py).
\* Once the server process has ended, none of its threads takes a step
\* (the children, in their own sessions, live on).
\* =====================================================================

\* The steps of a stop_process() called by the handler in the main thread.
MainStops ==
    \/ restart_process_stop(Main) \/ stop_process_check(Main)
    \/ _perform_graceful_shutdown(Main)
    \/ _perform_graceful_shutdown_gone(Main)
    \/ _perform_graceful_shutdown_wait(Main)
    \/ _perform_graceful_shutdown_escalate(Main)
    \/ _perform_graceful_shutdown_wait_kill(Main)
    \/ stop_process_cleanup(Main)

\* The requests served while the server shuts down are Start and Stop.
\* kill_persistproc is a tool of the server built on process_manager.py.
NextKill ==
    \/ \E t \in Threads :
         \/ start(t) \/ start_spawn(t) \/ start_insert(t)
         \/ stop(t) \/ stop_check(t) \/ stop_sigterm(t)
         \/ stop_wait(t) \/ stop_sigkill(t) \/ stop_wait_kill(t)
         \/ stop_record(t)
         \/ kill_persistproc(t) \/ kill_persistproc_loop(t)
         \/ restart_stop(t)
    \/ _kill_server
    \/ _monitor_loop
    \/ \E h \in Handles : ChildExit(h)

InitKill == Init /\ impl = "pm"
SpecKill == InitKill /\ [][NextKill]_vars

\* signal_handler(), lines 57-67, entered a second time: a further SIGINT or
\* SIGTERM arrives while the handler, in the main thread, is inside one of
\* stop_process's `with self.lock` blocks.  The new invocation runs on top
\* of the interrupted one.  If it finds no running entry it reaches
\* sys.exit(0); otherwise it calls stop_process, whose `with self.lock`
\* waits for a threading.Lock that the interrupted frame below it holds and
\* cannot release.  From then on every thread stops at its next
\* `with self.lock`: the server is alive and serves nothing ("hung").
signal_handler_nested ==
    /\ impl = "core" /\ th[Main].op = "signal"
    /\ th[Main].pc \in LockedPcs
    /\ reqs < MaxReqs
    /\ IF \E p \in Keys : ent[processes[p]].status = "running"
       THEN /\ Set(Main, [th[Main] EXCEPT !.pc = "blocked"])
            /\ impl' = "hung"
       ELSE /\ Set(Main, [th[Main] EXCEPT !.pc = "exited",
                                          !.res = StopProcessResult(0)])
            /\ impl' = "down"
    /\ reqs' = reqs + 1
    /\ UNCHANGED <<aux, children, ent, processes, mon, clock>>

\* The signal handler belongs to server.py, which runs core.py.
NextSignal ==
    \/ \E t \in Threads :
         \/ start_process(t) \/ start_process_spawn(t)
         \/ start_process_insert(t)
         \/ stop_process(t) \/ stop_process_check(t)
         \/ _perform_graceful_shutdown(t)
         \/ _perform_graceful_shutdown_gone(t)
         \/ _perform_graceful_shutdown_wait(t)
         \/ _perform_graceful_shutdown_escalate(t)
         \/ _perform_graceful_shutdown_wait_kill(t)
         \/ stop_process_cleanup(t)
    \/ signal_handler \/ signal_handler_loop
    \/ MainStops
    \/ _monitor_processes \/ _monitor_processes_poll
    \/ _monitor_processes_update
    \/ \E h \in Handles : ChildExit(h)

InitSignal == Init /\ impl = "core"
SpecSignal == InitSignal /\ [][NextSignal]_vars

\* The same server when a signal may also arrive during the handler.
NextSignalTwice == NextSignal \/ signal_handler_nested
SpecSignalTwice == InitSignal /\ [][NextSignalTwice]_vars

\* =====================================================================
\* Reading a log back: get_output (process_manager.py) and
\* get_process_output (core.py), each applied to one call.
\* =====================================================================

\* datetime.fromisoformat of a token whose trailing Z became +00:00: the
\* instant, or None where it raises ValueError.
_parse_iso(tok) ==
    CASE tok = "00:00Z" -> 0
      [] tok = "00:01Z" -> 1
      [] tok = "00:02Z" -> 2
      [] OTHER -> None

Unparseable(ls) == \E i \in 1..Len(ls) : _parse_iso(ls[i].token) = None

\* all_lines[-n:] for n >= 0: the last n items; -0 is 0, and the slice
\* from index 0 is the whole list.
SliceLast(ls, n) ==
    IF n = 0 \/ n >= Len(ls) THEN ls
    ELSE SubSeq(ls, Len(ls) - n + 1, Len(ls))

\* The entry a call looks up: pid 1 is registered when `known`; the
\* registry is keyed by the pids of children and never holds the key 0.
Registered(q) == q.pid # 0 /\ q.known

\* process_manager.ProcessManager.get_output
get_output(q) ==
    IF ~Registered(q) THEN ProcessOutputResult(<<>>)
    ELSE IF q.pid = 0 THEN ProcessOutputResult(q.server_log)
    ELSE IF q.stream \notin Streams THEN OutputRaise("ValueError")
    ELSE LET since_dt  == _parse_iso(q.since_time)
             before_dt == _parse_iso(q.before_time)
             kept1 == IF q.since_time = "" THEN q.file
                      ELSE SelectSeq(q.file,
                               LAMBDA ln : _parse_iso(ln.token) >= since_dt)
             kept2 == IF q.before_time = "" THEN kept1
                      ELSE SelectSeq(kept1,
                               LAMBDA ln : _parse_iso(ln.token) < before_dt)
         IN  IF q.since_time # "" /\ Unparseable(q.file)
                 THEN OutputRaise("ValueError")
             ELSE IF q.before_time # "" /\ Unparseable(kept1)
                 THEN OutputRaise("ValueError")
             ELSE ProcessOutputResult(
                      IF q.lines # None THEN SliceLast(kept2, q.lines)
                      ELSE kept2)

\* core.ProcessManager.get_process_output
get_process_output(q) ==
    IF q.pid # 0 /\ q.stream \notin Streams THEN OutputRaise("ValueError")
    ELSE IF q.pid # 0 /\ ~Registered(q) THEN OutputRaise("ValueError")
    ELSE LET all_lines == IF q.pid = 0 THEN q.server_log ELSE q.file
             since_dt  == _parse_iso(q.since_time)
             before_dt == _parse_iso(q.before_time)
             kept1 == IF q.since_time = "" THEN all_lines
                      ELSE SelectSeq(all_lines,
                               LAMBDA ln : /\ _parse_iso(ln.token) # None
                                           /\ _parse_iso(ln.token) >= since_dt)
             kept2 == IF q.before_time = "" THEN kept1
                      ELSE SelectSeq(kept1,
                               LAMBDA ln : /\ _parse_iso(ln.token) # None
                                           /\ _parse_iso(ln.token) < before_dt)
         IN  ProcessOutputResult(
                 IF q.lines # None /\ q.lines # 0
                 THEN SliceLast(kept2, q.lines) ELSE kept2)

\* The get_output tool of tools.py, served by process_manager.py.
get_output_tool ==
    /\ impl = "pm" /\ reader.pid # None /\ reader.res.tag = "none"
    /\ reader' = [reader EXCEPT !.res = get_output(reader)]
    /\ UNCHANGED <<server, logs, client>>

\* The get_process_output tool of server.py, served by core.py.
get_process_output_tool ==
    /\ impl = "core" /\ reader.pid # None /\ reader.res.tag = "none"
    /\ reader' = [reader EXCEPT !.res = get_process_output(reader)]
    /\ UNCHANGED <<server, logs, client>>

\* The calls that are made: pid 0 or the pid of a child, a stream name or
\* some other word, a line count or None, and time bounds that parse ("" is
\* a bound that was not supplied: the code tests `if since_time`).
ServerLogs == {f \in Files : Len(f) <= 1 /\ \A i \in 1..Len(f) : f[i].token = "00:00Z"}
Queries ==
    [pid : {0, 1}, known : BOOLEAN, stream : {"combined", "other"},
     lines : {None} \cup 0..(MaxLines + 1),
     since_time : {""} \cup Stamps, before_time : {""} \cup Stamps,
     file : Files, server_log : ServerLogs, res : {NoOutput}]

InitOutput ==
    /\ InitServer
    /\ logs = NoLogs /\ client = NoClient
    /\ reader \in Queries

NextOutput == get_output_tool \/ get_process_output_tool

SpecOutput == InitOutput /\ [][NextOutput]_vars

\* =====================================================================
\* Capturing a child's output: _LogManager.start_pumps
\* (process_manager.py) and LogManager.start_logging (core.py) start the
\* same three threads: one pump per pipe and one thread that closes the
\* combined file.  core.py also writes `[SYSTEM]` lines to the combined
\* file, through a file object of its own.
\* =====================================================================

registry == <<impl, children, ent, processes, th, mon, reqs>>

\* The child writes a line to one of its pipes.
Popen_write(s) ==
    /\ logs.child = "alive" /\ logs.wrote < MaxOut
    /\ logs' = [logs EXCEPT !.wrote = @ + 1,
                            !.pipe[s] = Append(@, logs.wrote + 1)]
    /\ UNCHANGED <<registry, clock, reader, client>>

\* The child ends; the write ends of its pipes are closed.
Popen_exit ==
    /\ logs.child = "alive"
    /\ logs' = [logs EXCEPT !.child = "exited"]
    /\ UNCHANGED <<registry, clock, reader, client>>

\* `for b_line in iter(src.readline, b"")`: the next line of the pipe, or,
\* at end of file, `src.close(); primary.close()` and the thread ends.
_pump_readline(s) ==
    /\ logs.pump[s].pc = "readline"
    /\ \/ /\ logs.pipe[s] # <<>>
          /\ logs' = [logs EXCEPT !.pipe[s] = Tail(@),
                                  !.pump[s].line = Head(logs.pipe[s]),
                                  !.pump[s].pc = "stamp"]
       \/ /\ logs.pipe[s] = <<>> /\ logs.child = "exited"
          /\ logs' = [logs EXCEPT !.pump[s].pc = "done"]
    /\ UNCHANGED <<registry, clock, reader, client>>

\* ts_line = f"{_get_iso_ts()} {line}"
_pump_stamp(s) ==
    /\ logs.pump[s].pc = "stamp"
    /\ logs' = [logs EXCEPT !.pump[s].ts = clock, !.pump[s].pc = "primary"]
    /\ clock' = clock + 1
    /\ UNCHANGED <<registry, reader, client>>

\* primary.write(ts_line); primary.flush()
_pump_primary(s) ==
    /\ logs.pump[s].pc = "primary"
    /\ logs' = [logs EXCEPT
                  !.file[s] = Append(@, LogLine(s, logs.pump[s].line,
                                                logs.pump[s].ts)),
                  !.pump[s].pc = "secondary"]
    /\ UNCHANGED <<registry, clock, reader, client>>

\* secondary.write(ts_line); secondary.flush(): a write to a closed file
\* raises ValueError, which ends the thread.
_pump_secondary(s) ==
    /\ logs.pump[s].pc = "secondary"
    /\ IF logs.closer = "closed"
       THEN logs' = [logs EXCEPT !.pump[s].pc = "crashed"]
       ELSE logs' = [logs EXCEPT
                       !.file["combined"] =
                           Append(@, LogLine(s, logs.pump[s].line,
                                             logs.pump[s].ts)),
                       !.pump[s].pc = "readline"]
    /\ UNCHANGED <<registry, clock, reader, client>>

\* proc.wait(); comb_fh.close()
_close_combined ==
    /\ logs.closer = "waiting" /\ logs.child = "exited"
    /\ logs' = [logs EXCEPT !.closer = "closed"]
    /\ UNCHANGED <<registry, clock, reader, client>>

\* core.start_process, after start_logging has returned: the entry is
\* stored in the registry ...
start_process_registers ==
    /\ impl = "core" /\ logs.child # "none" /\ ~logs.registered
    /\ logs' = [logs EXCEPT !.registered = TRUE]
    /\ UNCHANGED <<registry, clock, reader, client>>

\* ... and then _log_event appends the 'Process started' line.
_log_event_started ==
    /\ impl = "core" /\ logs.registered /\ ~logs.started
    /\ logs' = [logs EXCEPT
                  !.file["combined"] = Append(@, LogLine("started", 0, clock)),
                  !.started = TRUE]
    /\ clock' = clock + 1
    /\ UNCHANGED <<registry, reader, client>>

\* core._monitor_processes: poll() of a registered entry's child is not
\* None, and _log_event appends the 'Process exited' line.
_log_event_exited ==
    /\ impl = "core" /\ logs.registered /\ ~logs.exited
    /\ logs.child = "exited"
    /\ logs' = [logs EXCEPT
                  !.file["combined"] = Append(@, LogLine("exited", 0, clock)),
                  !.exited = TRUE]
    /\ clock' = clock + 1
    /\ UNCHANGED <<registry, reader, client>>

\* The state in which start_pumps / start_logging returns: the child is
\* alive, the three threads have been started, the files are empty.
InitLog ==
    /\ InitServer
    /\ reader = NoReader /\ client = NoClient
    /\ logs = [NoLogs EXCEPT !.child = "alive"]

NextLog ==
    \/ \E s \in Pipes : Popen_write(s)
    \/ Popen_exit
    \/ \E s \in Pipes : _pump_readline(s)
    \/ \E s \in Pipes : _pump_stamp(s)
    \/ \E s \in Pipes : _pump_primary(s)
    \/ \E s \in Pipes : _pump_secondary(s)
    \/ _close_combined
    \/ start_process_registers
    \/ _log_event_started
    \/ _log_event_exited

SpecLog == InitLog /\ [][NextLog]_vars

\* =====================================================================
\* The tail client: `run` of run.py, talking to the tools of tools.py on
\* a server built on process_manager.py.  Other clients start processes
\* on the same server, and processes end.
\* =====================================================================

\* get_label: the explicit label, or '<cmd> in <wd>'.
get_label(explicit_label, command, working_directory) ==
    IF explicit_label # ""
    THEN [name |-> explicit_label, cmd |-> "", wd |-> ""]
    ELSE [name |-> "", cmd |-> command, wd |-> working_directory]

Indices(procs) == 1..Len(procs)

\* ProcessManager.start as the client sees it: refused when a running
\* entry carries the label, else a new entry at the end of the dict.
StartRefused(procs, command, wd, label) ==
    \E i \in Indices(procs) :
        /\ procs[i].label = get_label(label, command, wd)
        /\ procs[i].status = "running"
Started(procs, command, wd, label) ==
    Append(procs, [pid |-> Len(procs) + 1,
                   command |-> shlex_split(command),
                   working_directory |-> wd,
                   status |-> "running",
                   start_time |-> clock,
                   label |-> get_label(label, command, wd)])

\* The search without its test of the status.
_find_running_process_dict_any_status(ps, cmd_tokens, wd) ==
    LET hits == {i \in Indices(ps) :
                    /\ ps[i].command = cmd_tokens
                    /\ ps[i].working_directory = wd}
    IN  IF hits = {} THEN 0
        ELSE ps[CHOOSE i \in hits : \A j \in hits : i <= j].pid

\* The first running entry with these tokens and this directory (0: None).
_find_running_process_dict(ps, cmd_tokens, wd) ==
    LET hits == {i \in Indices(ps) :
                    /\ ps[i].command = cmd_tokens
                    /\ ps[i].status = "running"
                    /\ ps[i].working_directory = wd}
    IN  IF hits = {} THEN 0
        ELSE ps[CHOOSE i \in hits : \A j \in hits : i <= j].pid

\* The first running entry with these tokens and this directory whose pid
\* is not old_pid (0: None).
_async_find_restarted_process(ps, cmd_tokens, wd, old_pid) ==
    LET hits == {i \in Indices(ps) :
                    /\ ps[i].command = cmd_tokens
                    /\ ps[i].status = "running"
                    /\ ps[i].working_directory = wd
                    /\ ps[i].pid # old_pid}
    IN  IF hits = {} THEN 0
        ELSE ps[CHOOSE i \in hits : \A j \in hits : i <= j].pid

ClientRuns == client.pc \notin {"none", "exit"}

\* Another client starts a process on the server.
other_start ==
    /\ ClientRuns /\ Len(client.procs) < MaxEntries
    /\ \E command \in CommandStrs, wd \in Cwds, label \in {"", "l"} :
          /\ ~StartRefused(client.procs, command, wd, label)
          /\ client' = [client EXCEPT
                          !.procs = Started(client.procs, command, wd, label)]
    /\ clock' = clock + 1
    /\ UNCHANGED <<registry, logs, reader>>

\* A process ends and the monitor records it.
monitor_records ==
    /\ ClientRuns
    /\ \E i \in Indices(client.procs) :
          /\ client.procs[i].status = "running"
          /\ client' = [client EXCEPT !.procs[i].status = "exited"]
    /\ UNCHANGED <<registry, clock, logs, reader>>

\* _start_or_get_process_via_mcp: `list`, then the choice between
\* stopping the entry that was found, starting, and adopting its pid.
_start_or_get_process_via_mcp ==
    /\ client.pc = "list"
    /\ LET existing == _find_running_process_dict(
                           client.procs, client.cmd_tokens, client.cwd)
       IN  client' = [client EXCEPT
                        !.calls = <<"list">>,
                        !.existing = existing,
                        !.pid = IF existing # 0 /\ ~client.fresh
                                THEN existing ELSE 0,
                        !.pc = IF existing # 0 /\ client.fresh THEN "stop"
                               ELSE IF existing = 0 THEN "start"
                               ELSE "get_log_paths"]
    /\ UNCHANGED <<registry, clock, logs, reader>>

\* `stop` for the entry that was found (--fresh); ProcessManager.stop marks
\* a running entry terminated.  The client does not look at the result.
_start_or_get_process_stop ==
    /\ client.pc = "stop"
    /\ client' = [client EXCEPT
                    !.calls = Append(@, "stop"),
                    !.procs = [i \in Indices(client.procs) |->
                                 IF /\ client.procs[i].pid = client.existing
                                    /\ client.procs[i].status = "running"
                                 THEN [client.procs[i] EXCEPT
                                          !.status = "terminated"]
                                 ELSE client.procs[i]],
                    !.existing = 0,
                    !.pc = "start"]
    /\ UNCHANGED <<registry, clock, logs, reader>>

\* `start`: the new entry's pid; a refused start fails the attempt, which
\* is made again from `list` until the 10 s deadline has passed.
_start_or_get_process_start ==
    /\ client.pc = "start"
    /\ LET command == Join(client.cmd_tokens)
       IN  IF \/ StartRefused(client.procs, command, client.cwd, client.label)
              \/ Len(client.procs) = MaxEntries
           THEN /\ \E pc \in {"list", "exit"} :
                      client' = [client EXCEPT !.calls = Append(@, "start"),
                                               !.pc = pc]
                /\ clock' = clock
           ELSE /\ client' = [client EXCEPT
                                !.calls = Append(@, "start"),
                                !.procs = Started(client.procs, command,
                                                  client.cwd, client.label),
                                !.pid = Len(client.procs) + 1,
                                !.pc = "get_log_paths"]
                /\ clock' = clock + 1
    /\ UNCHANGED <<registry, logs, reader>>

\* `get_log_paths` for the pid; the registry never drops an entry, so the
\* lookup succeeds and the tail begins.
_start_or_get_process_log_paths ==
    /\ client.pc = "get_log_paths"
    /\ IF \E i \in Indices(client.procs) : client.procs[i].pid = client.pid
       THEN client' = [client EXCEPT !.calls = Append(@, "get_log_paths"),
                                     !.pc = "tail"]
       ELSE client' = [client EXCEPT !.calls = Append(@, "get_log_paths"),
                                     !.pc = "list"]
    /\ UNCHANGED <<registry, clock, logs, reader>>

\* run's loop: the status poll that finds the tailed pid not running.
run_poll ==
    /\ client.pc = "tail"
    /\ \E i \in Indices(client.procs) :
          /\ client.procs[i].pid = client.pid
          /\ client.procs[i].status # "running"
    /\ client' = [client EXCEPT !.pc = "find"]
    /\ UNCHANGED <<registry, clock, logs, reader>>

\* The loop without `if new_pid is None: break`.
_find_restarted_process_keeps_tailing ==
    /\ client.pc = "find"
    /\ LET new_pid == _async_find_restarted_process(
                          client.procs, client.cmd_tokens, client.cwd,
                          client.pid)
       IN  IF new_pid = 0
           THEN client' = [client EXCEPT !.pc = "tail"]
           ELSE client' = [client EXCEPT !.pid = new_pid, !.pc = "tail"]
    /\ UNCHANGED <<registry, clock, logs, reader>>

\* _find_restarted_process: `list`; the tail moves to the entry that was
\* found, or the client ends.
_find_restarted_process ==
    /\ client.pc = "find"
    /\ LET new_pid == _async_find_restarted_process(
                          client.procs, client.cmd_tokens, client.cwd,
                          client.pid)
       IN  IF new_pid = 0
           THEN client' = [client EXCEPT !.pc = "exit"]
           ELSE client' = [client EXCEPT !.pid = new_pid, !.pc = "tail"]
    /\ UNCHANGED <<registry, clock, logs, reader>>

\* `persistproc run [--fresh] [--label l] c ...` from the directory /w,
\* against a server whose registry is empty.
InitRun ==
    /\ InitServer /\ impl = "pm"
    /\ logs = NoLogs /\ reader = NoReader
    /\ \E cmd_tokens \in CmdTokens, fresh \in BOOLEAN, label \in {"", "l"} :
          client = [NoClient EXCEPT !.pc = "list", !.cmd_tokens = cmd_tokens,
                                    !.cwd = "/w", !.fresh = fresh,
                                    !.label = label]

NextRun ==
    \/ other_start
    \/ monitor_records
    \/ _start_or_get_process_via_mcp
    \/ _start_or_get_process_stop
    \/ _start_or_get_process_start
    \/ _start_or_get_process_log_paths
    \/ run_poll
    \/ _find_restarted_process

SpecRun == InitRun /\ [][NextRun]_vars

\* ---------------------------------------------------------------------
\* The tail client with Ctrl+C and --on-exit, beside another client that
\* restarts processes.
\* ---------------------------------------------------------------------

OnExit  == {"ask", "stop", "detach"}
\* What the prompt of --on-exit=ask meets: a key, no terminal, or Ctrl+C.
Answers == {"y", "n", "notty", "sigint"}
\* Status polls that fit before the deadline of the wait for the stop:
\* one per second, 6 seconds.
DeadlinePolls == 6

\* ProcessManager.restart, lines 537-540: the stop() of the entry.
other_restart_stop ==
    /\ ClientRuns /\ client.other = 0
    /\ Len(client.procs) < MaxEntries
    /\ \E i \in Indices(client.procs) :
          /\ client.procs[i].status = "running"
          /\ client' = [client EXCEPT !.procs[i].status = "terminated",
                                      !.other = client.procs[i].pid]
    /\ UNCHANGED <<registry, clock, logs, reader>>

\* ProcessManager.restart, lines 547-559: the start() with the entry's
\* command, working directory and label; it raises when a running entry
\* carries the label by now.
other_restart_start ==
    /\ client.other # 0 /\ Len(client.procs) < MaxEntries
    /\ LET old == client.procs[CHOOSE i \in Indices(client.procs) :
                                  client.procs[i].pid = client.other]
       IN  IF \E i \in Indices(client.procs) :
                 /\ client.procs[i].label = old.label
                 /\ client.procs[i].status = "running"
           THEN client' = [client EXCEPT !.other = 0]
           ELSE client' = [client EXCEPT
                             !.other = 0,
                             !.procs = Append(@,
                                 [old EXCEPT !.pid = Len(client.procs) + 1,
                                             !.status = "running",
                                             !.start_time = clock])]
    /\ clock' = clock + 1
    /\ UNCHANGED <<registry, logs, reader>>

\* run(), lines 479-505, with every branch returning True.
_should_stop_whatever_on_exit(on_exit, answer) == TRUE

\* run(), lines 479-505: _should_stop().
_should_stop(on_exit, answer) ==
    IF on_exit = "stop" THEN TRUE
    ELSE IF on_exit = "detach" THEN FALSE
    ELSE answer = "y"

\* run(), lines 472-510 and 573-587: the first Ctrl+C, raised as
\* KeyboardInterrupt inside the loop; either the stop on the way out
\* begins, or ("Detaching") a second loop like the first is entered.
run_KeyboardInterrupt ==
    /\ client.pc \in {"tail", "find"} /\ client.sigints = 0
    /\ \E answer \in Answers :
          client' = [client EXCEPT
                       !.sigints = 1,
                       !.pc = IF _should_stop(client.on_exit, answer)
                              THEN "stop_on_exit" ELSE "tail"]
    /\ UNCHANGED <<registry, clock, logs, reader>>

\* run(), lines 558-560 and 628-630: a second Ctrl+C ends the second loop
\* and the wait for the stop; during the `stop` call itself (525, outside
\* the inner try) it leaves run() as an exception.
run_KeyboardInterrupt_again ==
    /\ client.pc \in {"tail", "find", "stop_on_exit", "stop_wait"}
    /\ client.sigints = 1
    /\ client' = [client EXCEPT !.sigints = 2, !.pc = "exit"]
    /\ UNCHANGED <<registry, clock, logs, reader>>

\* run(), lines 510-529: _stop_process_via_mcp(port, pid).  The server's
\* stop marks a running entry terminated, or gives up on it (`timeout`);
\* the client does not look at the result.
_stop_process_via_mcp ==
    /\ client.pc = "stop_on_exit"
    /\ \E exited \in BOOLEAN :
          client' = [client EXCEPT
                       !.calls = Append(@, "stop"),
                       !.stop_pid = client.pid,
                       !.polls = 0,
                       !.pc = "stop_wait",
                       !.procs = [i \in Indices(client.procs) |->
                                    IF /\ client.procs[i].pid = client.pid
                                       /\ client.procs[i].status = "running"
                                       /\ exited
                                    THEN [client.procs[i] EXCEPT
                                             !.status = "terminated"]
                                    ELSE client.procs[i]]]
    /\ UNCHANGED <<registry, clock, logs, reader>>

\* The wait for the stop written `while True:`.
run_stop_wait_without_deadline ==
    /\ client.pc = "stop_wait"
    /\ LET i == CHOOSE j \in Indices(client.procs) :
                    client.procs[j].pid = client.pid
       IN  IF client.procs[i].status = "running"
           THEN client' = [client EXCEPT !.polls = IF @ < DeadlinePolls
                                                  THEN @ + 1 ELSE @]
           ELSE client' = [client EXCEPT !.pc = "exit"]
    /\ UNCHANGED <<registry, clock, logs, reader>>

\* run(), lines 531-572: the status polls until the entry is not running
\* or the deadline has passed; then the cleanup and the return.
run_stop_wait ==
    /\ client.pc = "stop_wait"
    /\ LET i == CHOOSE j \in Indices(client.procs) :
                    client.procs[j].pid = client.pid
       IN  IF client.polls < DeadlinePolls
              /\ client.procs[i].status = "running"
           THEN client' = [client EXCEPT !.polls = @ + 1]
           ELSE client' = [client EXCEPT !.pc = "exit"]
    /\ UNCHANGED <<registry, clock, logs, reader>>

\* `persistproc run --on-exit o c ...` from the directory /w has started
\* its process on a server whose registry was empty, and tails it.
InitTail ==
    /\ InitRegistry /\ impl = "pm" /\ clock = 1
    /\ logs = NoLogs /\ reader = NoReader
    /\ \E cmd_tokens \in CmdTokens, on_exit \in OnExit :
          client = [NoClient EXCEPT
                      !.pc = "tail", !.cmd_tokens = cmd_tokens,
                      !.cwd = "/w", !.on_exit = on_exit, !.pid = 1,
                      !.calls = <<"list", "start", "get_log_paths">>,
                      !.procs = <<[pid |-> 1,
                                   command |-> shlex_split(Join(cmd_tokens)),
                                   working_directory |-> "/w",
                                   status |-> "running",
                                   start_time |-> 0,
                                   label |-> get_label("", Join(cmd_tokens),
                                                       "/w")]>>]

NextTail ==
    \/ other_start
    \/ other_restart_stop
    \/ other_restart_start
    \/ monitor_records
    \/ run_poll
    \/ _find_restarted_process
    \/ run_KeyboardInterrupt
    \/ run_KeyboardInterrupt_again
    \/ _stop_process_via_mcp
    \/ run_stop_wait

SpecTail == InitTail /\ [][NextTail]_vars

\* The client's loops run on timers (join(timeout=0.3), a poll each second):
\* a step of the client that can be taken is taken.
SpecTailFair ==
    /\ SpecTail
    /\ WF_vars(run_poll) /\ WF_vars(_find_restarted_process)
    /\ WF_vars(_stop_process_via_mcp) /\ WF_vars(run_stop_wait)

\* =====================================================================
\* Properties
\* =====================================================================

Entries   == {h \in Handles : ent[h].status # "absent"}
Finished  == {"exited", "failed", "terminated"}
Names(log) == [i \in DOMAIN log |-> log[i].ev]
\* The handler t returns from its request in this step.
Returns(t) == th[t].pc # "idle" /\ th'[t].pc = "idle"
MonitorStep == _monitor_loop \/ _monitor_processes_update

\* C1: no two registry entries with status `running` have the same label,
\* also when Start requests with the same label run concurrently.
C1_RunningLabelsDiffer ==
    \A p, q \in Pids :
        (p # q /\ Running(p) /\ Running(q))
            => ent[processes[p]].label # ent[processes[q]].label

\* C2: once the status stored under a pid is not `running`, no later step
\* makes the status stored under that pid `running` again.
C2_PidNeverRunsAgain ==
    [][\A p \in Pids :
          (processes[p] # 0 /\ ent[processes[p]].status # "running")
              => ~(processes'[p] # 0 /\ ent'[processes'[p]].status = "running")
      ]_vars

\* C3: an entry's status changes at most once: a status that is already
\* exited, failed or terminated is never overwritten.
C3_StatusChangesOnce ==
    [][\A h \in Handles :
          ent[h].status \in Finished => ent'[h].status = ent[h].status]_vars

\* C4: an entry whose status is exited, failed or terminated has its
\* exit_code and its exit_time set.
C4_ExitRecorded ==
    \A h \in Entries :
        ent[h].status \in Finished
            => ent[h].exit_code # None /\ ent[h].exit_time # None

\* C5: an entry's process handle is non-null if and only if its status is
\* `running`.
C5_HandleIffRunning ==
    \A h \in Entries : (ent[h].proc # None) <=> (ent[h].status = "running")

\* C6: when the Monitor takes an entry out of `running`, the new status is
\* `exited` if the child's exit code is 0 and `failed` otherwise.
C6_MonitorExitedOrFailed ==
    [][MonitorStep =>
          \A h \in Handles :
              (ent[h].status = "running" /\ ent'[h].status # "running")
                  => ent'[h].status =
                        (IF children[h].code = 0 THEN "exited" ELSE "failed")
      ]_vars

\* C7: a Stop with force=true sends SIGKILL as its only signal, and never
\* SIGTERM.
C7_ForceSendsOnlySigkill ==
    \A t \in Threads :
        (th[t].op = "stop" /\ th[t].force)
            => LET sent == SelectSeq(th[t].log, LAMBDA x : x.ev # "wait")
               IN Names(sent) \in {<<>>, <<"SIGKILL">>}

\* C8: a Stop with force=false sends SIGTERM first, waits, and sends SIGKILL
\* only after that graceful wait has timed out; it sends nothing after the
\* SIGKILL and no SIGKILL when the graceful wait saw the child exit.
GracefulLogs ==
    {<<>>,
     <<[ev |-> "SIGTERM"]>>,
     <<[ev |-> "SIGTERM"], [ev |-> "wait", ok |-> TRUE]>>,
     <<[ev |-> "SIGTERM"], [ev |-> "wait", ok |-> FALSE]>>,
     <<[ev |-> "SIGTERM"], [ev |-> "wait", ok |-> FALSE], [ev |-> "SIGKILL"]>>,
     <<[ev |-> "SIGTERM"], [ev |-> "wait", ok |-> FALSE], [ev |-> "SIGKILL"],
       [ev |-> "wait", ok |-> TRUE]>>,
     <<[ev |-> "SIGTERM"], [ev |-> "wait", ok |-> FALSE], [ev |-> "SIGKILL"],
       [ev |-> "wait", ok |-> FALSE]>>}
Shape(log) ==
    [i \in DOMAIN log |->
        IF log[i].ev = "wait" THEN [ev |-> "wait", ok |-> log[i].ok]
                              ELSE [ev |-> log[i].ev]]
C8_GracefulEscalation ==
    \A t \in Threads :
        (th[t].op \in {"stop", "restart"} /\ ~th[t].force)
            => Shape(th[t].log) \in GracefulLogs

\* C8 witness: a graceful Stop has returned after its graceful wait timed out
\* and it escalated to a delivered SIGKILL.
C8_Witness ==
    \E t \in Threads :
        /\ th[t].pc = "idle" /\ th[t].op = "stop" /\ ~th[t].force
        /\ Len(th[t].log) = 4 /\ th[t].log[3].ev = "SIGKILL"
        /\ th[t].log[3].ok

\* C9: when the child is still alive after Stop's final wait, Stop returns
\* the `timeout` error and the entry is left `running`, with its handle and
\* without exit_code or exit_time.
C9_TimeoutLeavesRunning ==
    [][\A t \in Threads :
          (/\ Returns(t) /\ th'[t].op = "stop"
           /\ th'[t].log # <<>>
           /\ th'[t].log[Len(th'[t].log)].ev = "wait"
           /\ ~th'[t].log[Len(th'[t].log)].ok)
              => /\ th'[t].res = Error("timeout")
                 /\ ent'[th[t].e].status = "running"
                 /\ ent'[th[t].e].proc # None
                 /\ ent'[th[t].e].exit_code = None
                 /\ ent'[th[t].e].exit_time = None
      ]_vars

\* C10: a Stop whose entry is already exited, failed or terminated returns
\* the stored exit_code as a success result, sends no signal and leaves the
\* entry unchanged.
C10_StopNonRunningIdempotent ==
    [][\A t \in Threads :
          (/\ th[t].pc \in {"stop_check", "stop_process_check"}
           /\ th[t].op = "stop"
           /\ th'[t] # th[t]
           /\ ent[th[t].e].status \in Finished)
              => /\ th'[t].pc = "idle"
                 /\ th'[t].res.tag = "ok"
                 /\ th'[t].res.exit_code = ent[th[t].e].exit_code
                 /\ th'[t].log = <<>>
                 /\ ent' = ent
      ]_vars

\* C11: a Stop that succeeds on an entry that was `running` when the call
\* began stores and returns the exit code the OS reported for the child, and
\* 0 only when no code was observed.
C11_StopReportsObservedCode ==
    [][\A t \in Threads :
          (/\ Returns(t) /\ th'[t].op = "stop" /\ th'[t].res.tag = "ok"
           /\ th[t].pc \in {"stop_record", "stop_process_cleanup"})
              => LET c    == children[th[t].e].code
                     seen == IF c = None THEN 0 ELSE c
                 IN /\ th'[t].res.exit_code = seen
                    /\ ent'[th[t].e].exit_code = seen
      ]_vars

\* C12: of two Stop calls that run concurrently on the same running pid, the
\* one that finishes second returns success and leaves the status, exit_code
\* and exit_time that the first one recorded as they are.
C12_ConcurrentStopsApplyOnce ==
    [][\A t, u \in Threads :
          (/\ t # u
           /\ th[t].op = "stop" /\ th[t].pc \in {"stop_record",
                                                 "stop_process_cleanup"}
           /\ th'[t] # th[t]
           /\ th[u].op = "stop" /\ th[u].pc = "idle" /\ th[u].pid = th[t].pid
           /\ th[u].res.tag = "ok"
           /\ ent[th[t].e].status = "terminated")
              => /\ th'[t].pc = "idle" /\ th'[t].res.tag = "ok"
                 /\ ent'[th[t].e].status = ent[th[t].e].status
                 /\ ent'[th[t].e].exit_code = ent[th[t].e].exit_code
                 /\ ent'[th[t].e].exit_time = ent[th[t].e].exit_time
      ]_vars

\* C13: a Start whose label is the label of a registry entry with status
\* `running` is refused with the 'already running' error, spawns no child
\* and leaves the registry unchanged: no Start goes on to spawn under such a
\* label, and the refusal changes neither the children nor the registry.
LabelRunning(l) ==
    \E p \in Pids : Running(p) /\ ent[processes[p]].label = l
StartDecides(t) ==
    \/ /\ th[t].pc = "idle" /\ th'[t] # th[t]
       /\ th'[t].op = "start" /\ reqs' = reqs + 1
    \/ th[t].pc \in {"start_check", "start_process_check"} /\ th'[t] # th[t]
C13_DuplicateStartRefused ==
    [][\A t \in Threads :
          StartDecides(t)
              => /\ th'[t].pc \in {"start_spawn", "start_process_spawn"}
                       => ~LabelRunning(th'[t].label)
                 /\ (th[t].pc # "idle" /\ LabelRunning(th[t].label))
                       => /\ th'[t].pc = "idle"
                          /\ th'[t].res = Raise("already running")
                 /\ th'[t].pc = "idle"
                       => /\ th'[t].res = Raise("already running")
                          /\ children' = children /\ ent' = ent
                          /\ processes' = processes
      ]_vars

\* C13 witness: a Start has been refused as a duplicate.
C13_Witness ==
    \E t \in Threads :
        /\ th[t].pc = "idle" /\ th[t].op = "start"
        /\ th[t].res = Raise("already running")
        /\ \E p \in Pids : Running(p)

\* C14: a Restart that succeeds returns a pid different from the pid it was
\* asked to restart.
C14_RestartReturnsNewPid ==
    \A t \in Threads :
        (/\ th[t].pc = "idle" /\ th[t].op = "restart"
         /\ th[t].res.tag = "ok" /\ th[t].res.pid # None)
            => th[t].res.pid # th[t].pid

\* C15: when a Restart of the running entry P1 with label L returns P2, the
\* entry under P1 is not `running` and the registry holds exactly one
\* `running` entry with label L, under P2.
C15_RestartLeavesOneRunning ==
    [][\A t \in Threads :
          (/\ th[t].op = "restart" /\ th[t].pc = "start_insert"
           /\ Returns(t) /\ th'[t].res.tag = "ok")
              => LET run(p) == /\ processes'[p] # 0
                               /\ ent'[processes'[p]].status = "running"
                 IN /\ ~run(th[t].pid)
                    /\ {p \in Pids : run(p) /\ ent'[processes'[p]].label
                                                  = th[t].label}
                          = {th'[t].res.pid}
      ]_vars

\* C16: when the Stop step of a Restart fails (pid unknown, target not
\* running, timeout), the Restart returns that error at once, with no child
\* spawned and no entry added or changed; the Start step is reached only
\* from a Stop that succeeded.
StopFailure(t) ==
    CASE th[t].pc = "stop_lookup" /\ processes[th[t].pid] = 0
            -> Error("not found")
      [] th[t].pc = "stop_check" /\ ent[th[t].e].status # "running"
            -> Error("not running")
      [] th[t].pc = "stop_wait_kill" /\ Len(th'[t].log) > Len(th[t].log)
                                     /\ ~th'[t].log[Len(th'[t].log)].ok
            -> Error("timeout")
      [] th[t].pc = "stop_process_lookup" /\ processes[th[t].pid] = 0
            -> Raise("not found")
      [] OTHER -> NoRes
C16_RestartForwardsStopError ==
    [][\A t \in Threads :
          (th[t].op = "restart" /\ th[t].pc # "idle" /\ th'[t] # th[t])
              => /\ StopFailure(t) # NoRes
                       => /\ th'[t].pc = "idle"
                          /\ th'[t].res = StopFailure(t)
                          /\ children' = children /\ ent' = ent
                          /\ processes' = processes
                 /\ th'[t].pc \in {"start_check", "start_process_check"}
                       => /\ StopFailure(t) = NoRes
                          /\ th[t].pc \in {"stop_record", "stop_process_check",
                                           "stop_process_cleanup"}
      ]_vars

\* C16 witness: a Restart has returned the timeout of its Stop step, after
\* SIGTERM, a timed-out wait, SIGKILL and a second timed-out wait.
C16_Witness ==
    \E t \in Threads :
        /\ th[t].pc = "idle" /\ th[t].op = "restart"
        /\ th[t].res = Error("timeout") /\ Len(th[t].log) = 4
        /\ ent[processes[th[t].pid]].status = "running"

\* C17: a Restart whose Stop step has succeeded returns a pid or an error
\* whatever becomes of its Start step: it does not raise, and its result is
\* not one with neither pid nor error.
C17_RestartPidOrError ==
    [][\A t \in Threads :
          (/\ th[t].op = "restart" /\ Returns(t)
           /\ th[t].pc \in {"start_check", "start_spawn", "start_insert",
                            "start_process_check", "start_process_spawn",
                            "start_process_insert"})
              => \/ th'[t].res.tag = "error"
                 \/ th'[t].res.tag = "ok" /\ th'[t].res.pid # None
      ]_vars

C19_HandlerStopsAllThenExits ==
    [][(th[Main].op = "signal" /\ th[Main].pc # "idle"
                               /\ th'[Main] # th[Main])
          => /\ (/\ th[Main].pc = "handler_loop"
                 /\ HandlerTodo(th[Main]) # {}
                 /\ ent[processes[First(HandlerTodo(th[Main]))]].status
                       = "running")
                   => /\ th'[Main].pc = "stop_process_lookup"
                      /\ th'[Main].pid = First(HandlerTodo(th[Main]))
             /\ th[Main].pc # "handler_loop"
                   => /\ th'[Main].pc \notin {"idle", "exited"}
                      /\ th'[Main].snap = th[Main].snap
             /\ th'[Main].pc = "exited"
                   => /\ HandlerTodo(th[Main]) = {}
                      /\ th'[Main].res.exit_code = 0
             /\ th'[Main].pc # "idle"
      ]_vars

\* C20: a Monitor step adds no registry entry and removes none, sends no
\* signal, and leaves every entry whose status is not `running` as it is.
MonitorTick ==
    \/ _monitor_loop
    \/ _monitor_processes \/ _monitor_processes_poll
    \/ _monitor_processes_update
C20_MonitorFrame ==
    [][MonitorTick =>
          /\ processes' = processes
          /\ \A t \in Threads : th'[t].log = th[t].log
          /\ \A h \in Handles :
                ent[h].status # "running" => ent'[h] = ent[h]
      ]_vars

\* C21: when a registered child has ended on its own, then, unless a Stop
\* is issued for its entry, the entry eventually leaves `running` with the
\* child's exit code recorded.
StopIssued(h) ==
    \/ ent[h].status = "terminated"
    \/ \E t \in Threads : th[t].pc # "idle" /\ th[t].e = h
C28_LogFailureLeavesNoEntry ==
    [][\A t \in Threads :
          (/\ Returns(t) /\ th'[t].res = Raise("OSError"))
              => /\ processes' = processes
                 /\ \A p \in Pids : th[t].h = 0 \/ processes'[p] # th[t].h
      ]_vars

\* ---------------------------------------------------------------------
\* Reading a log back (SpecOutput)
\* ---------------------------------------------------------------------

\* The call reads an entry's file: its pid is registered and its stream is
\* one of the three stream names.
ReadsEntryFile ==
    /\ reader.res.tag # "none"
    /\ Registered(reader) /\ reader.stream \in Streams

\* The lines of the file that remain after time filtering: the lines whose
\* leading token parses and lies within the bounds that were supplied.
Remaining ==
    SelectSeq(reader.file,
        LAMBDA ln :
            \/ reader.since_time = "" /\ reader.before_time = ""
            \/ /\ _parse_iso(ln.token) # None
               /\ reader.since_time # ""
                     => _parse_iso(ln.token) >= _parse_iso(reader.since_time)
               /\ reader.before_time # ""
                     => _parse_iso(ln.token) < _parse_iso(reader.before_time))

Min(a, b) == IF a <= b THEN a ELSE b
Last(ls, n) == SubSeq(ls, Len(ls) - n + 1, Len(ls))

\* C25: a call with pid = 0 and no filter returns the lines of the server's
\* own log file, whatever the stream and whether or not pid 1 is registered.
C25_PidZeroReadsServerLog ==
    (/\ reader.res.tag # "none" /\ reader.pid = 0
     /\ reader.lines = None
     /\ reader.since_time = "" /\ reader.before_time = "")
        => reader.res = ProcessOutputResult(reader.server_log)

\* C26: a call with lines = N >= 0 that returns, returns the last
\* min(N, k) of the k lines that remain after time filtering, in file order.
C26_LinesReturnsLastN ==
    (/\ ReadsEntryFile /\ reader.res.tag = "ok"
     /\ reader.lines # None)
        => reader.res.output
              = Last(Remaining, Min(reader.lines, Len(Remaining)))

\* C27: a call with a time bound returns, and what it returns holds no line
\* whose leading token does not parse.
C27_UnparseableLinesSkipped ==
    (/\ ReadsEntryFile
     /\ reader.since_time # "" \/ reader.before_time # "")
        => /\ reader.res.tag = "ok"
           /\ ~Unparseable(reader.res.output)

\* ---------------------------------------------------------------------
\* Capturing a child's output (SpecLog)
\* ---------------------------------------------------------------------

\* The lines the child wrote to pipe s, in the order it wrote them.
Holds(f, s, n) == \E i \in 1..Len(logs.file[f]) :
                      logs.file[f][i].src = s /\ logs.file[f][i].no = n
Content(f) == SelectSeq(logs.file[f], LAMBDA ln : ln.src \in Pipes)
CaptureOver ==
    /\ logs.child = "exited" /\ logs.closer = "closed"
    /\ \A s \in Pipes : logs.pump[s].pc \in {"done", "crashed"}

\* C22: no pump thread meets a closed combined file, and once the child has
\* ended and the three threads have finished, every line the child wrote is
\* in its own stream file and in the combined file.
C22_NoCapturedLineLost ==
    /\ \A s \in Pipes : logs.pump[s].pc # "crashed"
    /\ CaptureOver
          => \A s \in Pipes : /\ logs.pipe[s] = <<>>
                              /\ \A n \in 1..logs.wrote :
                                    Holds(s, s, n) <=> Holds("combined", s, n)
                              /\ \A n \in 1..logs.wrote :
                                    Holds("stdout", "stdout", n)
                                       \/ Holds("stderr", "stderr", n)

\* C23: in each of the three files the time stamps of successive content
\* lines never decrease.
C23_StampsNonDecreasing ==
    \A f \in Streams : \A i, j \in 1..Len(Content(f)) :
        i < j => Content(f)[i].ts <= Content(f)[j].ts

\* C24: in the combined file no line of child output comes before the
\* 'Process started' line, and none comes after the 'Process exited' line.
C24_SystemLinesBracketOutput ==
    \A i, j \in 1..Len(logs.file["combined"]) :
        i < j => /\ ~ /\ logs.file["combined"][i].src \in Pipes
                      /\ logs.file["combined"][j].src = "started"
                 /\ ~ /\ logs.file["combined"][i].src = "exited"
                      /\ logs.file["combined"][j].src \in Pipes

\* ---------------------------------------------------------------------
\* The tail client (SpecRun)
\* ---------------------------------------------------------------------

\* The running entries with the client's tokens and working directory.
Same(e) == /\ e.command = client.cmd_tokens
           /\ e.working_directory = client.cwd
Matches == {client.procs[i].pid : i \in {j \in Indices(client.procs) :
               Same(client.procs[j]) /\ client.procs[j].status = "running"}}
Entry(pid) == client.procs[CHOOSE i \in Indices(client.procs) :
                               client.procs[i].pid = pid]
Issued(calls, tool) == \E i \in 1..Len(calls) : calls[i] = tool

\* C29: when the client, run without --fresh, calls `list` and the registry
\* holds a running entry with its tokens and working directory, the client
\* goes on to fetch the log paths of such an entry's pid without calling
\* `start` or `stop`, and from there to tailing that pid.
C29_AdoptsRunningEntry ==
    [][/\ (/\ client.pc = "list" /\ client'.pc # "list"
           /\ ~client.fresh /\ Matches # {})
          => /\ client'.pc = "get_log_paths"
             /\ client'.pid \in Matches
             /\ ~Issued(client'.calls, "start")
             /\ ~Issued(client'.calls, "stop")
       /\ (/\ client.pc = "get_log_paths" /\ client'.pc # "get_log_paths"
           /\ ~client.fresh /\ client.existing # 0)
          => /\ client'.pc = "tail"
             /\ client'.pid = client.existing
             /\ ~Issued(client'.calls, "start")
             /\ ~Issued(client'.calls, "stop")
      ]_vars

\* C29 witness: a client run without --fresh is tailing the pid that `list`
\* showed, having called `list` and `get_log_paths` only.
C29_Witness ==
    /\ client.pc = "tail" /\ ~client.fresh
    /\ client.existing # 0 /\ client.pid = client.existing
    /\ client.calls = <<"list", "get_log_paths">>

\* C30: the tail moves from one pid to another only if the other entry has
\* the client's tokens and working directory, is running, and was started
\* after the entry the client has been following.
C30_SwitchesOnlyToLaterStart ==
    [][(client.pc = "find" /\ client'.pc = "tail")
          => /\ Same(Entry(client'.pid))
             /\ Entry(client'.pid).status = "running"
             /\ Entry(client'.pid).start_time > Entry(client.pid).start_time
      ]_vars

\* ---------------------------------------------------------------------
\* Start on a file system that fails (SpecDisk), continued
\* ---------------------------------------------------------------------

\* A Start call is still at work on child h.
BeingStarted(h) == \E t \in Threads : th[t].pc # "idle" /\ th[t].h = h

\* C38: every live child either has its entry in the registry or belongs
\* to a Start call that has not returned yet; a Start that has returned an
\* error or raised leaves no live child without an entry.
C38_NoLiveChildWithoutEntry ==
    \A h \in Handles :
        children[h].os = "alive"
            => \/ \E p \in Pids : processes[p] = h
               \/ BeingStarted(h)

\* ---------------------------------------------------------------------
\* Stop and the pid of a reaped child (Spec)
\* ---------------------------------------------------------------------

\* Thread t sends a signal in this step.
Signals(t) ==
    /\ Len(th'[t].log) = Len(th[t].log) + 1
    /\ th'[t].log[Len(th'[t].log)].ev \in {"SIGTERM", "SIGKILL"}

\* C37: when a Stop sends a signal, the child of the entry it is stopping
\* has not been reaped, so that the signal reaches that child and no other
\* process.
C37_SignalOnlyBeforeReap ==
    [][\A t \in Threads :
          Signals(t)
              => /\ children[th[t].e].os # "reaped"
                 /\ th'[t].log[Len(th'[t].log)].to = th[t].e
      ]_vars

\* =====================================================================
\* Stop under a fair scheduler: a handler thread that can take its next
\* step takes it (every wait of Stop carries a timeout, and no step keeps
\* the registry lock across a blocking call).
\* =====================================================================

StopSteps(t) ==
    \/ stop_check(t) \/ stop_sigterm(t) \/ stop_wait(t)
    \/ stop_sigkill(t) \/ stop_wait_kill(t) \/ stop_record(t)
    \/ stop_process_check(t)
    \/ _perform_graceful_shutdown(t) \/ _perform_graceful_shutdown_gone(t)
    \/ _perform_graceful_shutdown_wait(t)
    \/ _perform_graceful_shutdown_escalate(t)
    \/ _perform_graceful_shutdown_wait_kill(t)
    \/ stop_process_cleanup(t)

SpecStop ==
    /\ Init /\ [][NextMonitor]_vars
    /\ \A t \in Threads : WF_vars(StopSteps(t))

\* The waits a call has made so far.
Waits(log) == {i \in 1..Len(log) : log[i].ev = "wait"}

\* C40: every Stop call makes at most two waits (the graceful wait, then the
\* kill wait) and returns, whatever the child, the Monitor and the other
\* requests do.
C40_StopReturnsAfterTwoWaits ==
    /\ [](\A t \in Threads :
            th[t].op = "stop" => Cardinality(Waits(th[t].log)) <= 2)
    /\ \A t \in Threads :
          (th[t].op = "stop" /\ th[t].pc # "idle") ~> (th[t].pc = "idle")

\* A Stop has returned `timeout` after both of its waits expired.
C40_Witness ==
    \E t \in Threads :
        /\ th[t].op = "stop" /\ th[t].pc = "idle"
        /\ Cardinality(Waits(th[t].log)) = 2
        /\ \A i \in Waits(th[t].log) : ~th[t].log[i].ok
        /\ th[t].res = Error("timeout")

\* C36: every step of a request handler or of the monitor that reads or
\* writes the registry or an entry's mutable fields (status, exit_code,
\* exit_time, handle) is a step taken while holding the registry lock.
C36_RegistryAccessUnderLock ==
    /\ \A t \in Threads : th[t].pc \in AccessPcs => th[t].pc \in LockedPcs
    /\ mon.pc \in MonitorAccessPcs => mon.pc \in MonitorLockedPcs

\* C39: the shutdown signal handler, once entered, goes on to the exit of
\* the server process wherever the signal arrived: it is not left by an
\* exception, and it never waits for the registry lock while the code it
\* interrupted holds that lock.
C39_HandlerRunsToExit ==
    th[Main].op = "signal" => th[Main].pc \notin {"idle", "blocked"}

\* ---------------------------------------------------------------------
\* The tail client with Ctrl+C and --on-exit (SpecTail, SpecTailFair)
\* ---------------------------------------------------------------------

\* The entry the client tails has left `running`.
Left == Entry(client.pid).status # "running"
\* No entry qualifies as the successor of the entry the client tails.
NoReplacement ==
    _async_find_restarted_process(client.procs, client.cmd_tokens,
                                  client.cwd, client.pid) = 0
\* The on-exit policy is `detach` and Ctrl+C has been pressed.
Detached == client.on_exit = "detach" /\ client.sigints >= 1
\* The step is one of the client itself.
ClientStep ==
    \/ client'.pc # client.pc \/ client'.pid # client.pid
    \/ client'.sigints # client.sigints \/ client'.polls # client.polls

\* C31: while another client's `restart` of the tailed process is between
\* its Stop and its Start, the client, not interrupted, does not exit: it
\* stays to switch its tail to the successor.
C31_SurvivesRestart ==
    [][(client.other = client.pid /\ client.sigints = 0)
          => client'.pc # "exit"]_vars

C33_DetachNeverStops ==
    [][(client'.on_exit = "detach" /\ client'.sigints >= 1)
          => /\ client'.stop_pid = 0
             /\ client'.calls = client.calls
             /\ ClientStep => client'.procs = client.procs
      ]_vars

\* C33 witness: a detached client has ended and the process it tailed runs.
C33_Witness ==
    /\ Detached /\ client.pc = "exit"
    /\ ~Left /\ client.stop_pid = 0

\* C34: with --on-exit=detach the first Ctrl+C ends the client: after it
\* the client takes no step but its exit (no status poll, no search for a
\* replacement, no new tail).
C34_DetachExitsAtOnce ==
    [][(Detached /\ client.sigints = 1)
          => client'.pc \in {client.pc, "exit"}]_vars

====
